---- MODULE Spec2Model ----
(***************************************************************************)
(* Model of the crypto price collector (src/main.py, src/api/main.py):     *)
(* the pipeline extrair_dados -> tratar_dados_cripto ->                    *)
(* salvar_dados_sqlalchemy, its two scheduler loops (the asyncio           *)
(* background task of hosted mode and the blocking loop of local mode),    *)
(* and the HTTP routes POST /salvar and GET /ultimos-registros.            *)
(*                                                                         *)
(* Hosted mode runs every coroutine (the lifespan, the background task,    *)
(* the async route handlers) on one asyncio event loop: a coroutine keeps  *)
(* the loop from the moment it is resumed until its next await.  The only  *)
(* await of the pipeline code is asyncio.sleep(60) in the background task. *)
(* `running` names the coroutine that holds the loop.                      *)
(*                                                                         *)
(* Amounts are fixed-point numbers with two decimals (value * 100).        *)
(***************************************************************************)
EXTENDS Integers, Sequences, FiniteSets, TLC

VARIABLES
    vercel,     \* os.getenv('VERCEL'): "1", "0" or "unset"
    boot,       \* position of the process entry point (src/main.py)
    schema,     \* TRUE once Base.metadata.create_all has succeeded
    listening,  \* TRUE once uvicorn serves requests
    tasks,      \* number of asyncio.create_task(coletar_periodicamente()) calls
    now,        \* environment: wall clock, datetime.now()
    store,      \* table crypto_prices: sequence of rows in insertion order
    running,    \* hosted mode: the coroutine that holds the event loop
    pc,         \* position of each pipeline caller (bg, loc, salvar)
    session,    \* per caller: a SessionLocal() session is open
    dados,      \* per caller: local `dados`, the payload returned by the fetch
                \* (its index in Payloads; 0: none)
    tratados,   \* per caller: local `tratados` (the CryptoPrice to insert)
    wakeAt,     \* per loop: deadline of the pending sleep(60)
    last,       \* per caller: stages run and exception raised in the current cycle
    logged,     \* per caller: logger.error calls of the current cycle
    lreq,       \* GET /ultimos-registros: the request being handled (its query
                \* string q, and whether its query reaches the database)
    lresp       \* GET /ultimos-registros: the response being sent

vars == <<vercel, boot, schema, listening, tasks, now, store, running, pc,
          session, dados, tratados, wakeAt, last, logged, lreq, lresp>>

----------------------------------------------------------------------------
(* Bounds of the model *)

Quantum == 30       \* the clock advances in steps of Quantum time units
MaxTime == 120      \* the clock stops at MaxTime
MaxRows == 2        \* no cycle starts once the table holds MaxRows rows
MaxLimit == 1       \* limit query parameters range over -1 .. MaxLimit

(* Program constants *)

SleepInterval == 60     \* asyncio.sleep(60) / time.sleep(60)
DefaultLimit == 5       \* limit: int = 5
StatusOk == 200         \* the status of a value returned by a route
StatusInvalid == 400    \* HTTPException(status_code=400) of tratar_dados_cripto
StatusError == 500      \* HTTPException(status_code=500), unhandled exceptions

Loops == {"bg", "loc"}              \* coletar_periodicamente, main
Callers == {"bg", "loc", "salvar"}  \* every caller of the pipeline

----------------------------------------------------------------------------
(* Python exceptions and `except` clauses *)

\* The direct base class of each exception class the pipeline can meet.
ExcBase(c) ==
    CASE c = "HTTPException"    -> "Exception"
      [] c = "KeyError"         -> "LookupError"
      [] c = "LookupError"      -> "Exception"
      [] c = "ValueError"       -> "Exception"
      [] c = "TypeError"        -> "Exception"
      [] c = "OperationalError" -> "Exception"
      [] c = "ConnectionError"  -> "RequestException"
      [] c = "Timeout"          -> "RequestException"
      [] c = "HTTPError"        -> "RequestException"
      [] c = "JSONDecodeError"  -> "RequestException"
      [] c = "RequestException" -> "OSError"
      [] c = "OSError"          -> "Exception"
      [] OTHER                  -> "BaseException"

RECURSIVE IsSubclass(_, _)
IsSubclass(c, base) ==
    IF c = base THEN TRUE
    ELSE IF c = "BaseException" THEN FALSE
    ELSE IsSubclass(ExcBase(c), base)

\* `except (A, B, ...)` catches an exception of class c.
Catches(classes, c) == \E b \in classes : IsSubclass(c, b)

NoExc == [cls |-> "none", status |-> 0]
Raise(c) == [cls |-> c, status |-> 0]
RaiseHTTP(code) == [cls |-> "HTTPException", status |-> code]

----------------------------------------------------------------------------
(* JSON values: [t |-> kind, v |-> content] *)

JStr(chars) == [t |-> "str", v |-> chars]
JObj(fields) == [t |-> "obj", v |-> fields]
JNull == [t |-> "null", v |-> <<>>]
JList == [t |-> "list", v |-> <<>>]
NoJson == [t |-> "none", v |-> <<>>]

Ok(x) == [exc |-> NoExc, val |-> x]
Err(e) == [exc |-> e, val |-> NoJson]

\* Python's obj[key] for a string key.
GetItem(j, key) ==
    IF j.t = "obj"
    THEN IF key \in DOMAIN j.v THEN Ok(j.v[key]) ELSE Err(Raise("KeyError"))
    ELSE Err(Raise("TypeError"))   \* str, list: bad index type; None: not subscriptable

Digits == <<"0", "1", "2", "3", "4", "5", "6", "7", "8", "9">>
IsDigit(c) == \E i \in 1..10 : Digits[i] = c
DigitVal(c) == (CHOOSE i \in 1..10 : Digits[i] = c) - 1
AllDigits(s) == \A i \in 1..Len(s) : IsDigit(s[i])

RECURSIVE StrToNat(_)
StrToNat(s) ==
    IF Len(s) = 0 THEN 0
    ELSE StrToNat(SubSeq(s, 1, Len(s) - 1)) * 10 + DigitVal(s[Len(s)])

DotAt(s) == IF \E i \in 1..Len(s) : s[i] = "."
            THEN CHOOSE i \in 1..Len(s) : s[i] = "."
            ELSE 0

\* The fraction digits as hundredths ("5" -> 50, "50" -> 50, "" -> 0).
Hundredths(f) ==
    IF Len(f) = 0 THEN 0
    ELSE IF Len(f) = 1 THEN DigitVal(f[1]) * 10
    ELSE DigitVal(f[1]) * 10 + DigitVal(f[2])

\* An unsigned decimal literal: digits, with an optional "." and fraction.
ParseUnsigned(s) ==
    LET d == DotAt(s)
        ip == IF d = 0 THEN s ELSE SubSeq(s, 1, d - 1)
        fp == IF d = 0 THEN <<>> ELSE SubSeq(s, d + 1, Len(s))
    IN  IF Len(ip) + Len(fp) = 0 \/ ~AllDigits(ip) \/ ~AllDigits(fp)
        THEN [ok |-> FALSE, n |-> 0]
        ELSE [ok |-> TRUE, n |-> StrToNat(ip) * 100 + Hundredths(fp)]

\* Python's float(x) on a JSON value, in hundredths.
Float(j) ==
    IF j.t # "str" THEN [exc |-> Raise("TypeError"), n |-> 0]
    ELSE LET s == j.v
             neg == Len(s) > 0 /\ s[1] = "-"
             body == IF Len(s) > 0 /\ s[1] \in {"-", "+"} THEN Tail(s) ELSE s
             u == ParseUnsigned(body)
         IN  IF ~u.ok THEN [exc |-> Raise("ValueError"), n |-> 0]
             ELSE [exc |-> NoExc, n |-> IF neg THEN 0 - u.n ELSE u.n]

\* Responses of the upstream endpoint, as decoded by response.json().
Quote(amount) ==
    JObj([data |-> JObj([amount |-> amount, base |-> JStr(<<"B","T","C">>),
                         currency |-> JStr(<<"U","S","D">>)])])
Payloads ==
    << Quote(JStr(<<"1", ".", "5", "0">>)),
       Quote(JStr(<<"0">>)),
       Quote(JStr(<<"-", "5">>)),
       Quote(JStr(<<"a", "b", "c">>)),
       Quote(JNull),
       JObj([data |-> JObj([base |-> JStr(<<"B","T","C">>),
                            currency |-> JStr(<<"U","S","D">>)])]),
       JObj([data |-> JObj([amount |-> JStr(<<"2">>),
                            currency |-> JStr(<<"U","S","D">>)])]),
       JObj([data |-> JObj([amount |-> JStr(<<"2">>),
                            base |-> JStr(<<"B","T","C">>)])]),
       JObj([status |-> JStr(<<"o","k">>)]),
       JObj([data |-> JStr(<<"x">>)]),
       JObj([data |-> JNull]),
       JList >>


----------------------------------------------------------------------------
(* The pipeline stages *)

FetchFailures == {"ConnectionError", "Timeout", "HTTPError", "JSONDecodeError"}

\* What requests.get / raise_for_status / response.json() can produce.
NetOutcomes ==
    [exc : FetchFailures, idx : {0}] \cup [exc : {"none"}, idx : 1..Len(Payloads)]

\* extrair_dados(): the payload (its index), or HTTPException(500) for a
\* RequestException.
ExtrairDados(net) ==
    IF net.exc = "none" THEN [exc |-> NoExc, val |-> net.idx]
    ELSE IF Catches({"RequestException"}, net.exc)
    THEN [exc |-> RaiseHTTP(StatusError), val |-> 0]
    ELSE [exc |-> Raise(net.exc), val |-> 0]

\* A CryptoPrice object; id 0: no primary key assigned yet.
NoRec == [id |-> 0, valor |-> 0, cripto |-> <<>>, moeda |-> <<>>, timestamp |-> 0]

\* The exception classes tratar_dados_cripto turns into HTTPException(400).
TratarExcept == {"KeyError", "ValueError"}

\* The except clause of tratar_dados_cripto: KeyError and ValueError become
\* HTTPException(400), any other exception propagates.
TratarRaise(e) ==
    [exc |-> IF Catches(TratarExcept, e.cls) THEN RaiseHTTP(StatusInvalid) ELSE e,
     val |-> NoRec]

\* tratar_dados_cripto(dados_json) at wall-clock time t.  The keyword
\* arguments of CryptoPrice(...) are evaluated left to right; the first
\* exception ends the evaluation.
TratarDadosCripto(j, t) ==
    LET d == GetItem(j, "data")
    IN  IF d.exc.cls # "none" THEN TratarRaise(d.exc)
        ELSE LET a == GetItem(d.val, "amount")
             IN  IF a.exc.cls # "none" THEN TratarRaise(a.exc)
        ELSE LET f == Float(a.val)
             IN  IF f.exc.cls # "none" THEN TratarRaise(f.exc)
        ELSE LET b == GetItem(d.val, "base")
             IN  IF b.exc.cls # "none" THEN TratarRaise(b.exc)
        ELSE LET c == GetItem(d.val, "currency")
             IN  IF c.exc.cls # "none" THEN TratarRaise(c.exc)
        ELSE [exc |-> NoExc,
              val |-> [id |-> 0, valor |-> f.n, cripto |-> b.val.v,
                       moeda |-> c.val.v, timestamp |-> t]]

\* tratar_dados_cripto on each payload of Payloads, computed once.
TratarTable == [i \in 1..Len(Payloads) |-> TratarDadosCripto(Payloads[i], 0)]

\* tratar_dados_cripto(Payloads[i]) at wall-clock time t.
TratarPayload(i, t) ==
    IF TratarTable[i].exc.cls = "none"
    THEN [TratarTable[i] EXCEPT !.val.timestamp = t]
    ELSE TratarTable[i]

\* The primary key the table's sequence gives the next row.
NextId(rows) == Len(rows) + 1

\* db.add(dados); db.commit() on a reachable database: one INSERT, whose id
\* comes from the table's sequence.
CommitRow(rows, rec) == Append(rows, [rec EXCEPT !.id = NextId(rows)])

----------------------------------------------------------------------------
(* GET /ultimos-registros *)

Min(a, b) == IF a < b THEN a ELSE b

SortedDesc(s) ==
    \A i \in 1..Len(s) : \A k \in 1..Len(s) :
        i < k => s[i].timestamp >= s[k].timestamp

\* Variant: ORDER BY timestamp ASC.
OrderByTimestampAsc(rows) ==
    LET n == Len(rows)
        perms == {f \in [1..n -> 1..n] : \A i \in 1..n : \E k \in 1..n : f[k] = i}
    IN  {s \in {[i \in 1..n |-> rows[f[i]]] : f \in perms} :
           \A i \in 1..n : \A k \in 1..n : i < k => s[i].timestamp <= s[k].timestamp}

\* ORDER BY timestamp DESC: every order of the rows that is descending by
\* timestamp (the order of rows with equal timestamps is not determined).
OrderByTimestampDesc(rows) ==
    LET n == Len(rows)
        perms == {f \in [1..n -> 1..n] : \A i \in 1..n : \E k \in 1..n : f[k] = i}
    IN  {s \in {[i \in 1..n |-> rows[f[i]]] : f \in perms} : SortedDesc(s)}

\* The value of the `limit` parameter: limit: int = 5.
LimitParam(q) == IF q.given THEN q.limit ELSE DefaultLimit

\* The possible responses of ultimos_registros for query parameter q.
\* No exception is handled in the route: a failing query is answered 500.
\* The database (PostgreSQL) rejects a negative LIMIT.
UltimosRegistros(rows, q, up) ==
    LET n == LimitParam(q)
    IN  IF ~up \/ n < 0
        THEN {[status |-> StatusError, total |-> 0, dados |-> <<>>]}
        ELSE {[status |-> StatusOk, total |-> Len(r), dados |-> r] :
                r \in {SubSeq(s, 1, Min(n, Len(s))) : s \in OrderByTimestampDesc(rows)}}

----------------------------------------------------------------------------
(* Initial state *)

NoLast == [ran |-> <<>>, exc |-> NoExc, status |-> 0]
NoResp == [status |-> 0, total |-> 0, dados |-> <<>>]
NoReq == [q |-> [given |-> FALSE, limit |-> 0], up |-> FALSE]
\* The query strings of GET /ultimos-registros: no limit, or ?limit=n.
Limits == {[given |-> FALSE, limit |-> 0]} \cup [given : {TRUE}, limit : -1..MaxLimit]

Init ==
    /\ vercel \in {"1", "0", "unset"}
    /\ boot = "start"
    /\ schema = FALSE
    /\ listening = FALSE
    /\ tasks = 0
    /\ now = 0
    /\ store = <<>>
    /\ running = "none"
    /\ pc = [p \in Callers |-> "idle"]
    /\ session = [p \in Callers |-> FALSE]
    /\ dados = [p \in Callers |-> 0]
    /\ tratados = [p \in Callers |-> NoRec]
    /\ wakeAt = [p \in Loops |-> 0]
    /\ last = [p \in Callers |-> NoLast]
    /\ logged = [p \in Callers |-> {}]
    /\ lreq = NoReq
    /\ lresp = NoResp


----------------------------------------------------------------------------
(* Process entry point and startup *)

\* Variant: hosted mode for any value of VERCEL that is set.
HostedModeIfSet(v) == v # "unset"

\* src/main.py: os.getenv('VERCEL') == '1' selects uvicorn.run(app).
HostedMode(v) == v = "1"

\* lifespan: os.getenv('VERCEL') == '1' creates the background task.
LifespanCollects(v) == v = "1"

\* if __name__ == "__main__": either uvicorn.run(app), which enters the
\* lifespan on the event loop, or main().
Start ==
    /\ boot = "start"
    /\ IF HostedMode(vercel)
       THEN boot' = "lifespan" /\ running' = "lifespan"
       ELSE boot' = "main" /\ running' = running
    /\ UNCHANGED <<vercel, schema, listening, tasks, now, store, pc, session,
                   dados, tratados, wakeAt, last, logged, lreq, lresp>>

\* lifespan up to its yield: init_db(), then the background task is created
\* when VERCEL is '1'; uvicorn serves requests after the yield.  init_db
\* re-raises a failure of create_all (up = FALSE) and the startup is
\* abandoned.
LifespanStartup ==
    /\ boot = "lifespan"
    /\ \E up \in BOOLEAN :
         IF up
         THEN /\ schema' = TRUE
              /\ IF LifespanCollects(vercel)
                 THEN /\ pc' = [pc EXCEPT !["bg"] = "ready"]
                      /\ tasks' = tasks + 1
                 ELSE UNCHANGED <<pc, tasks>>
              /\ listening' = TRUE
              /\ boot' = "serving"
         ELSE /\ boot' = "failed"
              /\ UNCHANGED <<schema, pc, listening, tasks>>
    /\ running' = "none"
    /\ UNCHANGED <<vercel, now, store, session, dados, tratados, wakeAt,
                   last, logged, lreq, lresp>>

\* main() up to its loop: init_db(), then while True.
LocalMain ==
    /\ boot = "main"
    /\ \E up \in BOOLEAN :
         IF up
         THEN /\ schema' = TRUE
              /\ pc' = [pc EXCEPT !["loc"] = "ready"]
              /\ boot' = "looping"
         ELSE /\ boot' = "failed"
              /\ UNCHANGED <<schema, pc>>
    /\ UNCHANGED <<vercel, listening, tasks, now, store, running, session, dados,
                   tratados, wakeAt, last, logged, lreq, lresp>>

----------------------------------------------------------------------------
(* One pipeline cycle, for caller p *)

\* The event loop can run coroutine p (main() runs on no event loop and
\* `running` stays "none" in local mode).
LoopFree(p) == running \in {"none", p}

\* Variant: the loops catch the HTTPException of the stages only.
LoopExceptHTTPOnly == {"HTTPException"}

\* The exception classes the `except` of the two collector loops catches.
LoopExcept == {"Exception"}

\* The exception classes the `except` of salvar_dados_sqlalchemy catches.
SaveExcept == {"Exception"}

\* Variant: the wait blocks the thread (time.sleep in the task).
SleepBlocks(p) == FALSE

\* The wait of loop p suspends a coroutine and frees the event loop:
\* await asyncio.sleep(60) in the task; time.sleep(60) in main(), which
\* runs on no event loop.
SleepYields(p) == p = "bg"

\* The response FastAPI sends for an exception that leaves a route.
ResponseStatus(e) ==
    IF e.cls = "none" THEN StatusOk
    ELSE IF e.cls = "HTTPException" THEN e.status
    ELSE StatusError

\* `with SessionLocal() as db:` is entered and extrair_dados() issues its
\* request.
BeginCycle(p) ==
    /\ Len(store) < MaxRows
    /\ LoopFree(p)
    /\ pc' = [pc EXCEPT ![p] = "fetching"]
    /\ session' = [session EXCEPT ![p] = TRUE]
    /\ running' = IF p = "loc" THEN running ELSE p
    /\ UNCHANGED <<vercel, boot, schema, listening, tasks, now, store, dados,
                   tratados, wakeAt, last, logged, lreq, lresp>>

\* The pipeline of caller p ends after the stages `ran`, with exception e
\* (NoExc: none) and the logger.error calls `logs` of the stages.  The
\* with-block closes the session.  A loop logs an exception its `except`
\* catches; one it does not catch ends the loop.  The route logs the
\* traceback and re-raises, and FastAPI builds the response.
EndCycle(p, ran, e, logs) ==
    /\ session' = [session EXCEPT ![p] = FALSE]
    /\ UNCHANGED <<dados, tratados, wakeAt>>
    /\ IF p \in Loops
       THEN /\ last' = [last EXCEPT ![p] = [ran |-> ran, exc |-> e, status |-> 0]]
            /\ IF e.cls = "none" \/ Catches(LoopExcept, e.cls)
               THEN /\ pc' = [pc EXCEPT ![p] = "ended"]
                    /\ logged' = [logged EXCEPT ![p] =
                                    IF e.cls = "none" THEN logs
                                    ELSE logs \cup {"coletor"}]
                    /\ UNCHANGED running
               ELSE /\ pc' = [pc EXCEPT ![p] = "dead"]
                    /\ logged' = [logged EXCEPT ![p] = logs]
                    /\ running' = IF p = "bg" THEN "none" ELSE running
       ELSE /\ pc' = [pc EXCEPT ![p] = "ended"]
            /\ last' = [last EXCEPT ![p] =
                          [ran |-> ran, exc |-> e, status |-> ResponseStatus(e)]]
            /\ logged' = [logged EXCEPT ![p] =
                            IF e.cls = "none" THEN logs
                            ELSE logs \cup {"traceback"}]
            /\ UNCHANGED running

\* extrair_dados() returns or raises.
FetchReturn(p) ==
    /\ pc[p] = "fetching"
    /\ \E net \in NetOutcomes : \E r \in {ExtrairDados(net)} :
             IF r.exc.cls = "none"
             THEN /\ dados' = [dados EXCEPT ![p] = r.val]
                  /\ pc' = [pc EXCEPT ![p] = "tratar"]
                  /\ last' = [last EXCEPT ![p].ran = <<"fetch">>]
                  /\ UNCHANGED <<session, tratados, wakeAt, logged, running>>
             ELSE EndCycle(p, <<"fetch">>, r.exc, {"api"})
    /\ UNCHANGED <<vercel, boot, schema, listening, tasks, now, store, lreq, lresp>>

\* tratar_dados_cripto(dados) returns or raises.
Tratar(p) ==
    /\ pc[p] = "tratar"
    /\ \E r \in {TratarPayload(dados[p], now)} :
         LET ran == Append(last[p].ran, "tratar")
         IN  IF r.exc.cls = "none"
             THEN /\ tratados' = [tratados EXCEPT ![p] = r.val]
                  /\ pc' = [pc EXCEPT ![p] = "commit"]
                  /\ last' = [last EXCEPT ![p].ran = ran]
                  /\ UNCHANGED <<session, dados, wakeAt, logged, running>>
             ELSE EndCycle(p, ran, r.exc,
                           IF r.exc.cls = "HTTPException" THEN {"tratar"} ELSE {})
    /\ UNCHANGED <<vercel, boot, schema, listening, tasks, now, store, lreq, lresp>>

\* salvar_dados_sqlalchemy: db.add(dados); db.commit().  The commit reaches
\* the database (up) or fails; the failure is caught, rolled back, logged
\* and re-raised as HTTPException(500).
SaveCommit(p) ==
    /\ pc[p] = "commit"
    /\ \E up \in BOOLEAN :
         LET ran == Append(last[p].ran, "save")
         IN  IF up
             THEN /\ store' = CommitRow(store, tratados[p])
                  /\ tratados' = [tratados EXCEPT ![p].id = NextId(store)]
                  /\ pc' = [pc EXCEPT ![p] = "refresh"]
                  /\ last' = [last EXCEPT ![p].ran = ran]
                  /\ UNCHANGED <<session, dados, wakeAt, logged, running>>
             ELSE /\ store' = store
                  /\ IF Catches(SaveExcept, "OperationalError")
                     THEN EndCycle(p, ran, RaiseHTTP(StatusError), {"salvar"})
                     ELSE EndCycle(p, ran, Raise("OperationalError"), {})
    /\ UNCHANGED <<vercel, boot, schema, listening, tasks, now, lreq, lresp>>

\* salvar_dados_sqlalchemy: db.refresh(dados) after the commit, then the
\* return.  A failure of the refresh takes the same except branch: the
\* rollback finds nothing to undo and the committed row stays.
SaveRefresh(p) ==
    /\ pc[p] = "refresh"
    /\ \E up \in BOOLEAN :
         IF up
         THEN EndCycle(p, last[p].ran, NoExc, {})
         ELSE IF Catches(SaveExcept, "OperationalError")
              THEN EndCycle(p, last[p].ran, RaiseHTTP(StatusError), {"salvar"})
              ELSE EndCycle(p, last[p].ran, Raise("OperationalError"), {})
    /\ UNCHANGED <<vercel, boot, schema, listening, tasks, now, store, lreq, lresp>>

----------------------------------------------------------------------------
(* The collector loops *)

\* The first iteration of loop p: the event loop runs the new task, or
\* main() enters its while.
LoopStart(p) ==
    /\ pc[p] = "ready"
    /\ BeginCycle(p)

\* The try statement of loop p is left and sleep(60) is called.
LoopSleep(p) ==
    /\ pc[p] = "ended"
    /\ pc' = [pc EXCEPT ![p] = "sleeping"]
    /\ wakeAt' = [wakeAt EXCEPT ![p] = now + SleepInterval]
    /\ last' = [last EXCEPT ![p] = NoLast]
    /\ logged' = [logged EXCEPT ![p] = {}]
    /\ dados' = [dados EXCEPT ![p] = 0]
    /\ tratados' = [tratados EXCEPT ![p] = NoRec]
    /\ running' = IF SleepYields(p) THEN "none" ELSE running
    /\ UNCHANGED <<vercel, boot, schema, listening, tasks, now, store, session,
                   lreq, lresp>>

\* Variant: the next iteration begins before the wait is over.
LoopWakeNoWait(p) ==
    /\ pc[p] = "sleeping"
    /\ BeginCycle(p)

\* sleep(60) returns and the next iteration begins.
LoopWake(p) ==
    /\ pc[p] = "sleeping"
    /\ now >= wakeAt[p]
    /\ BeginCycle(p)

----------------------------------------------------------------------------
(* The routes *)

\* A client sends POST /salvar.
SalvarRequest ==
    /\ listening
    /\ pc["salvar"] = "idle"
    /\ pc' = [pc EXCEPT !["salvar"] = "pending"]
    /\ UNCHANGED <<vercel, boot, schema, listening, tasks, now, store, running,
                   session, dados, tratados, wakeAt, last, logged, lreq, lresp>>

\* The event loop runs the salvar() coroutine.
SalvarStart ==
    /\ pc["salvar"] = "pending"
    /\ BeginCycle("salvar")

\* The response of POST /salvar is sent and the coroutine is over.
SalvarRespond ==
    /\ pc["salvar"] = "ended"
    /\ pc' = [pc EXCEPT !["salvar"] = "idle"]
    /\ last' = [last EXCEPT !["salvar"] = NoLast]
    /\ logged' = [logged EXCEPT !["salvar"] = {}]
    /\ dados' = [dados EXCEPT !["salvar"] = 0]
    /\ tratados' = [tratados EXCEPT !["salvar"] = NoRec]
    /\ running' = "none"
    /\ UNCHANGED <<vercel, boot, schema, listening, tasks, now, store, session,
                   wakeAt, lreq, lresp>>

\* GET /ultimos-registros, with or without ?limit=n: the event loop runs
\* ultimos_registros(limit) up to its return.  The query reaches the
\* database (up) or fails.
UltimosHandle ==
    /\ listening
    /\ running = "none"
    /\ \E q \in Limits : \E up \in BOOLEAN :
         /\ lreq' = [q |-> q, up |-> up]
         /\ lresp' \in UltimosRegistros(store, q, up)
    /\ running' = "ultimos"
    /\ UNCHANGED <<vercel, boot, schema, listening, tasks, now, store, pc, session,
                   dados, tratados, wakeAt, last, logged>>

\* The response of GET /ultimos-registros is sent and the coroutine is over.
UltimosRespond ==
    /\ running = "ultimos"
    /\ lreq' = NoReq
    /\ lresp' = NoResp
    /\ running' = "none"
    /\ UNCHANGED <<vercel, boot, schema, listening, tasks, now, store, pc, session,
                   dados, tratados, wakeAt, last, logged>>

----------------------------------------------------------------------------
(* Environment *)

\* Time passes (the clock starts when the process has started up).
Tick ==
    /\ boot \in {"serving", "looping"}
    /\ now + Quantum <= MaxTime
    /\ now' = now + Quantum
    /\ UNCHANGED <<vercel, boot, schema, listening, tasks, store, running, pc,
                   session, dados, tratados, wakeAt, last, logged, lreq, lresp>>

Next ==
    \/ Start
    \/ LifespanStartup
    \/ LocalMain
    \/ \E p \in Loops : LoopStart(p)
    \/ \E p \in Loops : LoopSleep(p)
    \/ \E p \in Loops : LoopWake(p)
    \/ \E p \in Callers : FetchReturn(p)
    \/ \E p \in Callers : Tratar(p)
    \/ \E p \in Callers : SaveCommit(p)
    \/ \E p \in Callers : SaveRefresh(p)
    \/ SalvarRequest
    \/ SalvarStart
    \/ SalvarRespond
    \/ UltimosHandle
    \/ UltimosRespond
    \/ Tick

Spec == Init /\ [][Next]_vars

\* A step of the code that is running: a blocking call returns (the fetch
\* has a timeout, a database call answers or fails) and the caller goes on
\* to its next blocking call, its wait or its end.
Proceed ==
    \/ \E p \in Callers : FetchReturn(p) \/ Tratar(p) \/ SaveCommit(p) \/ SaveRefresh(p)
    \/ \E p \in Loops : LoopSleep(p)
    \/ SalvarRespond
    \/ UltimosRespond

\* A collector loop begins an iteration.
Iterate == \E p \in Loops : LoopStart(p) \/ LoopWake(p)

\* Scheduling: time passes; the running code proceeds; a loop whose wait is
\* over is resumed, also when requests keep arriving (the event loop runs
\* its ready callbacks first in, first out).
FairSpec == Spec /\ WF_vars(Tick) /\ WF_vars(Proceed) /\ SF_vars(Iterate)

----------------------------------------------------------------------------
(* Vocabulary of the claims *)

Stages == <<"fetch", "tratar", "save">>
IsPrefix(s, t) == Len(s) <= Len(t) /\ s = SubSeq(t, 1, Len(s))

\* Caller p is inside a pipeline cycle.
InCycle(p) == pc[p] \in {"fetching", "tratar", "commit", "refresh", "ended"}

\* The cycle of p has ended with a failure raised by one of its stages.
Failed(p) == pc[p] = "ended" /\ last[p].exc.cls # "none"

\* The payload is an object holding an object `data` that holds key k.
HasField(j, k) ==
    /\ j.t = "obj"
    /\ "data" \in DOMAIN j.v
    /\ j.v["data"].t = "obj"
    /\ k \in DOMAIN j.v["data"].v

\* The payload has the three fields and a strictly positive numeric amount.
WellFormed(j) ==
    /\ \A k \in {"amount", "base", "currency"} : HasField(j, k)
    /\ Float(j.v["data"].v["amount"]).exc.cls = "none"
    /\ Float(j.v["data"].v["amount"]).n > 0

----------------------------------------------------------------------------
(* C1: in both collector loops every failure of a stage, unexpected ones    *)
(* included, is caught and logged, the loop goes on, and the next cycle     *)
(* starts after the wait of 60.                                             *)

\* The last time the clock of the model reaches.
Horizon == (MaxTime \div Quantum) * Quantum

\* The next cycle of loop p lies beyond the bounds of the model: the table
\* holds MaxRows rows, or the wait ends after the last time of the clock.
Exhausted(p) ==
    \/ Len(store) >= MaxRows
    \/ pc[p] = "sleeping" /\ wakeAt[p] > Horizon

C1_LoopSurvivesFailures ==
    /\ [](\A p \in Loops :
            /\ pc[p] # "dead"
            /\ Failed(p) => "coletor" \in logged[p] /\ ~session[p])
    /\ [][\A p \in Loops :
            /\ Failed(p) /\ pc'[p] # "ended" =>
                 pc'[p] = "sleeping" /\ wakeAt'[p] = now + SleepInterval
            /\ pc[p] = "sleeping" /\ pc'[p] # "sleeping" =>
                 pc'[p] = "fetching" /\ now >= wakeAt[p]]_vars
    /\ \A p \in Loops : Failed(p) ~> (pc[p] = "fetching" \/ Exhausted(p))

\* A loop has caught an exception that is no HTTPException.
C1_Witness ==
    \E p \in Loops : Failed(p) /\ last[p].exc.cls = "TypeError"

----------------------------------------------------------------------------
(* C2: for every payload that lacks data.amount, data.base or               *)
(* data.currency, or whose amount is non-numeric or not strictly positive,  *)
(* tratar_dados_cripto fails with the validation error (HTTPException 400)  *)
(* and the cycle writes nothing to the table.                               *)

C2_MalformedPayloadRejected ==
    \A p \in Callers :
        pc[p] \in {"commit", "refresh", "ended"} /\ last[p].ran # <<"fetch">>
        /\ ~WellFormed(Payloads[dados[p]])
        => /\ pc[p] = "ended"
           /\ last[p].ran = <<"fetch", "tratar">>
           /\ last[p].exc = RaiseHTTP(StatusInvalid)
           /\ tratados[p].id = 0

----------------------------------------------------------------------------
(* C3: every failure of POST /salvar is answered with an error whose        *)
(* status class matches its kind: a malformed payload (tratar fails) with   *)
(* 4xx, a fetch or storage failure with 5xx; no failure is answered with    *)
(* success.                                                                 *)

C3_StatusMatchesErrorKind ==
    pc["salvar"] = "ended" =>
        LET l == last["salvar"]
        IN  /\ l.exc.cls = "none" <=> l.status = StatusOk
            /\ l.exc.cls # "none" /\ l.ran = <<"fetch", "tratar">>
                 => l.status \in 400..499
            /\ l.exc.cls # "none" /\ l.ran # <<"fetch", "tratar">>
                 => l.status \in 500..599

----------------------------------------------------------------------------
(* C4: salvar_dados_sqlalchemy is all-or-nothing: a call that succeeds adds *)
(* exactly one row, a call that fails leaves the table as it was before the *)
(* call, and no row is ever modified or removed.                            *)

\* The row inserted for the object of caller p, if any.
RowOf(p) == {i \in 1..Len(store) : store[i].id = tratados[p].id}

C4_SaveAllOrNothing ==
    /\ [](\A p \in Callers :
            pc[p] = "ended" /\ last[p].ran = Stages =>
                IF last[p].exc.cls = "none"
                THEN Cardinality(RowOf(p)) = 1
                ELSE RowOf(p) = {})
    /\ [][\/ store' = store
          \/ Len(store') = Len(store) + 1 /\ SubSeq(store', 1, Len(store)) = store]_vars


----------------------------------------------------------------------------
(* C5: GET /ultimos-registros with no limit, or with a limit that is zero   *)
(* or negative, behaves as with the default limit of 5.                     *)

DefaultQuery == [given |-> TRUE, limit |-> DefaultLimit]

C5_NonPositiveLimitIsDefault ==
    running = "ultimos" /\ (~lreq.q.given \/ lreq.q.limit <= 0)
    => \A up \in BOOLEAN :
         UltimosRegistros(store, lreq.q, up) = UltimosRegistros(store, DefaultQuery, up)

----------------------------------------------------------------------------
(* C6: GET /ultimos-registros?limit=N, answered by the database, returns at *)
(* most N rows and at most the rows that exist, the newest first by         *)
(* timestamp, with total the number of rows returned; on an empty table it  *)
(* returns an empty sequence and no error.                                  *)

\* The response lists rows of the table, no row twice, newest first, and
\* leaves out no row newer than one it lists.
NewestFirst(r) ==
    /\ \A i \in 1..Len(r) : \E k \in 1..Len(store) : store[k] = r[i]
    /\ \A i \in 1..Len(r) : \A k \in 1..Len(r) : i # k => r[i].id # r[k].id
    /\ SortedDesc(r)
    /\ \A k \in 1..Len(store) :
         (\A i \in 1..Len(r) : r[i] # store[k])
         => \A i \in 1..Len(r) : r[i].timestamp >= store[k].timestamp

ListRecentContract ==
    /\ lresp.status = StatusOk
    /\ Len(lresp.dados) <= LimitParam(lreq.q)
    /\ Len(lresp.dados) <= Len(store)
    /\ lresp.total = Len(lresp.dados)
    /\ NewestFirst(lresp.dados)
    /\ store = <<>> => lresp.dados = <<>>

----------------------------------------------------------------------------
(* C7: in every pipeline cycle no storage session is open while             *)
(* extrair_dados is in progress: the session is acquired after the fetch    *)
(* has returned, and it is released on every exit path.                     *)

C7_NoSessionAcrossFetch ==
    \A p \in Callers :
        /\ pc[p] = "fetching" => ~session[p]
        /\ ~InCycle(p) \/ pc[p] = "ended" => ~session[p]

----------------------------------------------------------------------------
(* C8: a loop runs its first cycle at once, with no wait before it; between *)
(* the end of a cycle and the start of the next it waits exactly once, for  *)
(* 60; in a cycle the stages run in the order fetch, tratar, save, and a    *)
(* stage runs only if every stage before it has succeeded.                  *)

C8_CycleAndWaitOrder ==
    /\ [](\A p \in Callers :
            /\ IsPrefix(last[p].ran, Stages)
            /\ pc[p] = "tratar" => last[p].ran = <<"fetch">> /\ last[p].exc = NoExc
            /\ pc[p] = "commit" => last[p].ran = <<"fetch", "tratar">> /\ last[p].exc = NoExc
            /\ pc[p] = "refresh" => last[p].ran = Stages /\ last[p].exc = NoExc)
    /\ [][\A p \in Loops :
            \* the first cycle follows the start with no wait
            /\ pc[p] = "ready" /\ pc'[p] # "ready" => pc'[p] = "fetching"
            \* a cycle starts at the start of the loop or after a wait of 60
            /\ pc[p] # "fetching" /\ pc'[p] = "fetching" =>
                 \/ pc[p] = "ready"
                 \/ pc[p] = "sleeping" /\ now >= wakeAt[p]
            \* the end of a cycle is followed by the wait
            /\ pc[p] = "ended" /\ pc'[p] # "ended" =>
                 pc'[p] = "sleeping" /\ wakeAt'[p] = now + SleepInterval
            \* the wait is followed by a cycle, not by a second wait
            /\ pc[p] = "sleeping" =>
                 \/ pc'[p] = "sleeping" /\ wakeAt'[p] = wakeAt[p]
                 \/ pc'[p] = "fetching"
            \* a stage is run after the stages before it, none of which failed
            /\ last'[p].ran # last[p].ran /\ last'[p].ran # <<>> =>
                 /\ last[p].exc = NoExc
                 /\ last'[p].ran = SubSeq(Stages, 1, Len(last[p].ran) + 1)]_vars

\* A loop is in a cycle that began after a wait, at its save stage.
C8_Witness ==
    \E p \in Loops :
        pc[p] = "refresh" /\ wakeAt[p] >= SleepInterval /\ now >= wakeAt[p]

----------------------------------------------------------------------------
(* C9: in hosted mode a cycle of POST /salvar and a cycle of the background *)
(* task are not serialized (one can start while the other is in progress),  *)
(* and while the task is at its wait a request is handled without waiting   *)
(* for the wait to end.                                                     *)

\* POST /salvar is pending and only the background task could hold it up.
SalvarWaits ==
    pc["salvar"] = "pending" /\ running # "ultimos" /\ Len(store) < MaxRows

\* The claim as stated: a pending request is started whether the task is
\* inside a cycle or at its wait.
C9_CyclesNotSerialized ==
    SalvarWaits /\ (InCycle("bg") \/ pc["bg"] = "sleeping") => ENABLED SalvarStart

\* The claim as amended: the two cycles never overlap, and a pending
\* request is started while the task is at its wait.
C9_SerializedByEventLoop ==
    /\ ~(InCycle("bg") /\ InCycle("salvar"))
    /\ InCycle("bg") => running = "bg" /\ ~ENABLED SalvarStart
    /\ SalvarWaits /\ pc["bg"] = "sleeping" => ENABLED SalvarStart

\* POST /salvar is in its cycle while the task waits and its wait is not over.
C9_Witness ==
    /\ pc["bg"] = "sleeping" /\ now < wakeAt["bg"]
    /\ pc["salvar"] = "refresh"

----------------------------------------------------------------------------
(* C10: VERCEL == '1' selects hosted mode: the HTTP listener and exactly    *)
(* one background task, created at startup after init_db; any other value   *)
(* selects local mode: no listener, no task, the loop of main() after       *)
(* init_db.  In neither mode do two collector loops run.                    *)

C10_ModeSelectsOneLoop ==
    /\ tasks <= 1
    /\ boot \in (IF vercel = "1" THEN {"start", "lifespan", "serving", "failed"}
                 ELSE {"start", "main", "looping", "failed"})
    /\ boot = "serving" <=> listening
    /\ listening => vercel = "1" /\ schema /\ tasks = 1 /\ pc["bg"] # "idle"
    /\ pc["bg"] # "idle" => listening
    /\ boot = "looping" <=> pc["loc"] # "idle"
    /\ pc["loc"] # "idle" => vercel # "1" /\ schema /\ tasks = 0 /\ ~listening
    /\ ~(pc["bg"] # "idle" /\ pc["loc"] # "idle")

\* Hosted mode serves requests while its one background task is in a cycle.
C10_Witness ==
    listening /\ tasks = 1 /\ pc["bg"] = "fetching" /\ pc["loc"] = "idle"

====
